---- MODULE Spec2Model ----
(***************************************************************************)
(* Order-of-accuracy computation of pfhub/main.py: make_grid, interp and   *)
(* order_of_accuracy_values_.                                              *)
(*                                                                         *)
(* Numbers.  Coordinates of the regular grid are rationals [n, d] (d > 0). *)
(* Sample coordinates and field values are integers.  A square root is     *)
(* kept symbolically: a spacing [num, den] stands for sqrt(num / den), an  *)
(* error [rat, irr, num, den] stands for                                   *)
(*     sqrt((rat + sqrt(irr)) / 2) * sqrt(num / den)                       *)
(* with irr = 0 or irr not a perfect square, so that two errors of one     *)
(* call are equal as reals exactly when the records are equal.  Rounding   *)
(* of floating point is not modelled.                                      *)
(***************************************************************************)
EXTENDS Integers, Sequences, FiniteSets, TLC

VARIABLES
    stepsx,     \* argument stepsx: <<<<low, high>>, number of points>>
    stepsy,     \* argument stepsy
    dataframe,  \* argument dataframe: a sequence of rows
    cubic,      \* the values scipy's cubic interpolant takes inside the hull
    pc,         \* which call has returned
    grid,       \* what make_grid returned
    field,      \* what interp returned
    out,        \* what order_of_accuracy_values_ returned
    renaming,   \* an injective renaming of the data_set labels
    out2,       \* what order_of_accuracy_values_ returned for the renamed table
    kept,       \* a series whose rows are kept while the other series' change
    changed,    \* the table with the rows of the other series changed
    out3        \* what order_of_accuracy_values_ returned for the changed table

vars == <<stepsx, stepsy, dataframe, cubic, pc, grid, field, out, renaming, out2,
          kept, changed, out3>>

(***************************************************************************)
(* Bounds of the model.                                                    *)
(***************************************************************************)
MaxCoord == 2       \* axis endpoints of make_grid / interp are in 0..MaxCoord
MaxN     == 3       \* points per axis of make_grid are in 1..MaxN
MaxVal   == 1       \* sample values of interp are f * (x + y) + 1, f in 1..MaxVal
MaxLabel == 3       \* data_set labels are 1..MaxLabel

Series == {"a", "b"}
Labels == 1..MaxLabel
None   == "none"

(***************************************************************************)
(* Helpers on sequences and numbers.                                       *)
(***************************************************************************)
Rat(n, d) == [n |-> n, d |-> d]
RatEq(a, b) == a.n * b.d = b.n * a.d

RECURSIVE SumSeq(_)
SumSeq(s) == IF s = <<>> THEN 0 ELSE Head(s) + SumSeq(Tail(s))

SetMin(S) == CHOOSE m \in S : \A k \in S : m <= k

RECURSIVE SortedSeq(_)
\* the elements of a finite set of integers in ascending order
SortedSeq(S) ==
    IF S = {} THEN <<>> ELSE <<SetMin(S)>> \o SortedSeq(S \ {SetMin(S)})

\* the largest r with r * r <= n
Isqrt(n) == CHOOSE r \in 0..n : r * r <= n /\ (r + 1) * (r + 1) > n

(***************************************************************************)
(* make_grid (main.py 684-702).                                            *)
(***************************************************************************)
\* slice_ = lambda x, n: slice(x[0], x[1], n * 1j)
slice_(x, n) == [start |-> x[1], stop |-> x[2], step |-> n]

\* mgrid with the stop left out, as for a real step: start + k * (stop - start) / n
mgrid_axis_open(sl) ==
    [k \in 1..sl.step |->
        Rat(sl.start * sl.step + (k - 1) * (sl.stop - sl.start), sl.step)]

\* np.mgrid with an imaginary step n*1j: n points; the k-th (from 0) is
\* start + k * (stop - start) / (n - 1), and start alone when n = 1.
mgrid_axis(sl) ==
    [k \in 1..sl.step |->
        IF sl.step = 1 THEN Rat(sl.start, 1)
        ELSE Rat(sl.start * (sl.step - 1) + (k - 1) * (sl.stop - sl.start),
                 sl.step - 1)]

make_grid(sx, sy) ==
    LET ax == mgrid_axis(slice_(sx[1], sx[2]))
        ay == mgrid_axis(slice_(sy[1], sy[2]))
        grid_x == [i \in DOMAIN ax |-> [j \in DOMAIN ay |-> ax[i]]]
        grid_y == [i \in DOMAIN ax |-> [j \in DOMAIN ay |-> ay[j]]]
    IN  <<grid_x, grid_y>>

(***************************************************************************)
(* interp (main.py 705-737): scipy's griddata(points, values, xi,          *)
(* method="cubic", fill_value=0.0).                                        *)
(***************************************************************************)
\* twice the signed area of the triangle a, b, c (integer points)
Orient(a, b, c) ==
    (b[1] - a[1]) * (c[2] - a[2]) - (b[2] - a[2]) * (c[1] - a[1])

\* the sign of Orient(a, b, p) for the rational point p = (px, py)
OrientRat(a, b, px, py) ==
    (b[1] - a[1]) * (py.n - a[2] * py.d) * px.d
        - (b[2] - a[2]) * (px.n - a[1] * px.d) * py.d

InTriangle(a, b, c, px, py) ==
    LET s1 == OrientRat(a, b, px, py)
        s2 == OrientRat(b, c, px, py)
        s3 == OrientRat(c, a, px, py)
    IN  \/ s1 >= 0 /\ s2 >= 0 /\ s3 >= 0
        \/ s1 <= 0 /\ s2 <= 0 /\ s3 <= 0

\* (px, py) lies in the convex hull of the points (its boundary included):
\* it lies in a triangle of the Delaunay triangulation griddata builds
InHull(points, px, py) ==
    \E i, j, k \in DOMAIN points :
        /\ Orient(points[i], points[j], points[k]) # 0
        /\ InTriangle(points[i], points[j], points[k], px, py)

\* the sample points that (px, py) coincides with
AtSample(points, px, py) ==
    {k \in DOMAIN points :
        px.n = points[k][1] * px.d /\ py.n = points[k][2] * py.d}

\* The interpolant passes through the samples, is fill_value outside the
\* convex hull, and elsewhere is a value c of the piecewise cubic that is a
\* function of the samples and the point.
griddata(points, values, xi, fill_value, c) ==
    [i \in DOMAIN xi[1] |-> [j \in DOMAIN xi[1][i] |->
        LET px == xi[1][i][j]
            py == xi[2][i][j]
        IN  IF AtSample(points, px, py) # {}
            THEN values[SetMin(AtSample(points, px, py))]
            ELSE IF InHull(points, px, py)
            THEN c[<<points, values, px, py>>]
            ELSE fill_value]]

\* np.array([dataframe[keys[0]], dataframe[keys[1]]]).T
PointsOf(keys, df) == [k \in DOMAIN df |-> <<df[k][keys[1]], df[k][keys[2]]>>]
\* dataframe[keys[2]]
ValuesOf(keys, df) == [k \in DOMAIN df |-> df[k][keys[3]]]

\* interp with another fill_value than 0.0
interp_fill_one(keys, sx, sy, df, c) ==
    griddata(PointsOf(keys, df), ValuesOf(keys, df), make_grid(sx, sy), 1, c)

interp(keys, sx, sy, df, c) ==
    griddata(PointsOf(keys, df), ValuesOf(keys, df), make_grid(sx, sy), 0, c)

\* the arguments at which interp of df reads the cubic
CubicArgs(keys, sx, sy, df) ==
    LET xi == make_grid(sx, sy)
        points == PointsOf(keys, df)
    IN  {<<points, ValuesOf(keys, df), xi[1][i][j], xi[2][i][j]>> :
            <<i, j>> \in {q \in (1..sx[2]) \X (1..sy[2]) :
                /\ AtSample(points, xi[1][q[1]][q[2]], xi[2][q[1]][q[2]]) = {}
                /\ InHull(points, xi[1][q[1]][q[2]], xi[2][q[1]][q[2]])}}

(***************************************************************************)
(* order_of_accuracy_values_ (main.py 740-808).                            *)
(***************************************************************************)
\* cell_area = lambda n: (stepsx[0][1] - stepsx[0][0])
\*                       * (stepsy[0][1] - stepsy[0][0]) / n
cell_area(sx, sy, n) ==
    [num |-> (sx[1][2] - sx[1][1]) * (sy[1][2] - sy[1][1]), den |-> n]

\* effective_dx with the row count multiplied in instead of divided by
effective_dx_times(sx, sy, df) ==
    [num |-> cell_area(sx, sy, 1).num * Len(df), den |-> 1]

\* effective_dx = lambda df: np.sqrt(cell_area(len(df))): sqrt(num / den)
effective_dx(sx, sy, df) == cell_area(sx, sy, Len(df))

\* np.linalg.norm(d, ord=2) of a two-dimensional array d: its largest
\* singular value s.  For at most two columns, with g = d^T d,
\*     2 * s^2 = tr(g) + sqrt((g11 - g22)^2 + 4 * g12^2),
\* returned as [rat, irr] with 2 * s^2 = rat + sqrt(irr).
np_linalg_norm(d) ==
    LET g(a, b) == SumSeq([i \in DOMAIN d |-> d[i][a] * d[i][b]])
        g11 == g(1, 1)
        g22 == IF Len(d[1]) = 1 THEN 0 ELSE g(2, 2)
        g12 == IF Len(d[1]) = 1 THEN 0 ELSE g(1, 2)
        disc == (g11 - g22) * (g11 - g22) + 4 * g12 * g12
        root == Isqrt(disc)
    IN  IF root * root = disc
        THEN [rat |-> g11 + g22 + root, irr |-> 0]
        ELSE [rat |-> g11 + g22, irr |-> disc]

\* norm of x alone, the reference forgotten
norm_no_ref(sx, sy, ref, x) ==
    LET s == np_linalg_norm(x)
        a == cell_area(sx, sy, sx[2] * sy[2])
    IN  [rat |-> s.rat, irr |-> s.irr, num |-> a.num, den |-> a.den]

\* norm = lambda ref, x: np.linalg.norm(x - ref, ord=2)
\*                       * np.sqrt(cell_area(stepsx[1] * stepsy[1]))
norm(sx, sy, ref, x) ==
    LET d == [i \in DOMAIN x |-> [j \in DOMAIN x[i] |-> x[i][j] - ref[i][j]]]
        s == np_linalg_norm(d)
        a == cell_area(sx, sy, sx[2] * sy[2])
    IN  [rat |-> s.rat, irr |-> s.irr, num |-> a.num, den |-> a.den]

\* tail as seq[n:]: tail(-1, seq) is then the last element alone
tail_from_n(n, seq) ==
    LET start == IF n < 0
                 THEN (IF Len(seq) + n < 0 THEN 0 ELSE Len(seq) + n)
                 ELSE (IF n > Len(seq) THEN Len(seq) ELSE n)
    IN  SubSeq(seq, start + 1, Len(seq))

\* toolz tail(n, seq) = seq[-n:], a Python slice: a negative start counts
\* from the end, and the start is clipped to 0..len(seq)
tail(n, seq) ==
    LET start == IF -n < 0
                 THEN (IF Len(seq) - n < 0 THEN 0 ELSE Len(seq) - n)
                 ELSE (IF -n > Len(seq) THEN Len(seq) ELSE -n)
    IN  SubSeq(seq, start + 1, Len(seq))

\* clean with tail(1): keeps the last element instead of dropping the first
clean_keep_last(xs) == tail(1, xs)

\* clean = sequence(list, tail(-1), np.array)
clean(xs) == tail(-1, xs)

\* error against the last group of the list instead of the first
error_last_ref(keys, sx, sy, c, dfs) ==
    LET x == [k \in DOMAIN dfs |-> interp(keys, sx, sy, dfs[k], c)]
    IN  clean([k \in DOMAIN x |-> norm(sx, sy, x[Len(x)], x[k])])

\* error = sequence(map_(interp(keys, stepsx, stepsy)), list,
\*                  lambda x: map_(norm(x[0]), x), clean)
error(keys, sx, sy, c, dfs) ==
    LET x == [k \in DOMAIN dfs |-> interp(keys, sx, sy, dfs[k], c)]
    IN  clean([k \in DOMAIN x |-> norm(sx, sy, x[1], x[k])])

\* dx_clean with the spacings in the opposite order
dx_clean_reversed(sx, sy, dfs) ==
    LET d == clean([k \in DOMAIN dfs |-> effective_dx(sx, sy, dfs[k])])
    IN  [k \in DOMAIN d |-> d[Len(d) + 1 - k]]

\* dx_clean = sequence(map_(effective_dx), clean)
dx_clean(sx, sy, dfs) ==
    clean([k \in DOMAIN dfs |-> effective_dx(sx, sy, dfs[k])])

\* dataframe.groupby(dataframe.data_set) then map_(second): the rows of each
\* label, the labels in ascending order
groupby_data_set(df) ==
    LET ls == SortedSeq({df[k].data_set : k \in DOMAIN df})
    IN  [i \in DOMAIN ls |-> SelectSeq(df, LAMBDA r : r.data_set = ls[i])]

\* no grouping by sim_name: every series of a label gets all rows of the label
groupby_sim_name_all(df) ==
    [s \in {df[k].sim_name : k \in DOMAIN df} |-> df]

\* dict(tuple(x.groupby("sim_name"))): series name -> its rows
groupby_sim_name(df) ==
    [s \in {df[k].sim_name : k \in DOMAIN df} |->
        SelectSeq(df, LAMBDA r : r.sim_name = s)]

\* toolz merge_with(identity, dicts): key -> the list of its values, in the
\* order of the dicts that have the key
merge_with_identity(dicts) ==
    [s \in UNION {DOMAIN dicts[i] : i \in DOMAIN dicts} |->
        LET at == SortedSeq({i \in DOMAIN dicts : s \in DOMAIN dicts[i]})
        IN  [k \in DOMAIN at |-> dicts[at[k]][s]]]

RECURSIVE sorted_len(_)
\* sorted(xs, key=len) without reverse=True: ascending and stable
sorted_len(xs) ==
    IF xs = <<>> THEN <<>>
    ELSE LET first == SetMin({i \in DOMAIN xs :
                          \A j \in DOMAIN xs : Len(xs[i]) <= Len(xs[j])})
         IN  <<xs[first]>> \o
             sorted_len(SubSeq(xs, 1, first - 1)
                        \o SubSeq(xs, first + 1, Len(xs)))

\* no sort at all: the groups stay in the order of their labels
sorted_not(xs) == xs

RECURSIVE sorted_len_reverse(_)
\* sorted(xs, key=len, reverse=True): stable, so groups of equal length keep
\* the order they came in
sorted_len_reverse(xs) ==
    IF xs = <<>> THEN <<>>
    ELSE LET first == SetMin({i \in DOMAIN xs :
                          \A j \in DOMAIN xs : Len(xs[j]) <= Len(xs[i])})
         IN  <<xs[first]>> \o
             sorted_len_reverse(SubSeq(xs, 1, first - 1)
                                \o SubSeq(xs, first + 1, Len(xs)))

order_of_accuracy_values_(keys, sx, sy, df, c) ==
    LET by_set == groupby_data_set(df)
        dicts == [i \in DOMAIN by_set |-> groupby_sim_name(by_set[i])]
        merged == merge_with_identity(dicts)
    IN  [s \in DOMAIN merged |->
            LET srt == sorted_len_reverse(merged[s])
            IN  <<dx_clean(sx, sy, srt), error(keys, sx, sy, c, srt)>>]

(***************************************************************************)
(* Inputs.                                                                 *)
(***************************************************************************)
Keys == <<"x", "y", "z">>

NY == {1, 2}
CubicVals == {0, 1}

StepsOf(ns) ==
    {<<<<lo, hi>>, n>> : <<lo, hi, n>> \in
        {t \in (0..MaxCoord) \X (0..MaxCoord) \X ns : t[1] < t[2]}}

\* point sets with three points not on a line, in row order
T1  == <<<<0, 0>>, <<1, 0>>, <<0, 1>>>>
T2  == <<<<1, 0>>, <<0, 1>>, <<1, 1>>>>
Sq  == <<<<0, 0>>, <<1, 0>>, <<0, 1>>, <<1, 1>>>>
Big == <<<<0, 0>>, <<MaxCoord, 0>>, <<0, MaxCoord>>>>

\* the rows of one run: series s, data_set l, field z = f * (x + y) + 1
Rows(shape, f, s, l) ==
    [k \in DOMAIN shape |->
        [sim_name |-> s, data_set |-> l, x |-> shape[k][1], y |-> shape[k][2],
         z |-> f * (shape[k][1] + shape[k][2]) + 1]]

(***************************************************************************)
(* make_grid as a call.                                                    *)
(***************************************************************************)
InitGrid ==
    /\ stepsx \in StepsOf(1..MaxN)
    /\ stepsy \in StepsOf(1..MaxN)
    /\ dataframe = <<>>
    /\ cubic = <<>>
    /\ pc = "start"
    /\ grid = None /\ field = None /\ out = None /\ renaming = None /\ out2 = None
    /\ kept = None /\ changed = None /\ out3 = None

MakeGrid ==
    /\ pc = "start"
    /\ grid' = make_grid(stepsx, stepsy)
    /\ pc' = "grid"
    /\ UNCHANGED <<stepsx, stepsy, dataframe, cubic, field, out, renaming, out2,
                 kept, changed, out3>>

SpecGrid == InitGrid /\ [][MakeGrid]_vars

(***************************************************************************)
(* interp as a call.                                                       *)
(***************************************************************************)
InitInterp ==
    /\ stepsx \in StepsOf(1..MaxN)
    /\ stepsy \in StepsOf(NY)
    /\ dataframe \in {Rows(sh, f, "a", 1) : sh \in {T1, T2, Sq, Big}, f \in 1..MaxVal}
    /\ cubic \in [CubicArgs(Keys, stepsx, stepsy, dataframe) -> CubicVals]
    /\ pc = "start"
    /\ grid = None /\ field = None /\ out = None /\ renaming = None /\ out2 = None
    /\ kept = None /\ changed = None /\ out3 = None

Interp ==
    /\ pc = "start"
    /\ field' = interp(Keys, stepsx, stepsy, dataframe, cubic)
    /\ pc' = "interp"
    /\ UNCHANGED <<stepsx, stepsy, dataframe, cubic, grid, out, renaming, out2,
                 kept, changed, out3>>

SpecInterp == InitInterp /\ [][Interp]_vars

(***************************************************************************)
(* order_of_accuracy_values_ as a call, then the call again on the table   *)
(* with its data_set labels renamed, or with other rows of other series.   *)
(***************************************************************************)
\* <<stepsx, stepsy>>: one grid point; the unit square, 2 x 2; a wider
\* x range; a wider y range with one point.  Every grid point is a sample
\* point of the shapes below or lies outside their hull.
SpecDomains ==
    { <<<<<<0, 1>>, 1>>, <<<<0, 1>>, 1>>>>,
      <<<<<<0, 1>>, 2>>, <<<<0, 1>>, 2>>>>,
      <<<<<<0, 2>>, 2>>, <<<<0, 1>>, 2>>>>,
      <<<<<<0, 1>>, 2>>, <<<<0, 2>>, 1>>>> }
SpecShapes == <<T1, T2, Sq>>
GroupCounts == {1, 2, 3}

\* the runs a table may hold: labels descending, series "a" before "b"
Slots ==
    [i \in 1..(2 * MaxLabel) |->
        <<MaxLabel - ((i - 1) \div 2), IF i % 2 = 1 THEN "a" ELSE "b">>]

RECURSIVE Table(_, _)
\* the table whose run Slots[i] has the rows of SpecShapes[t[i]], none if 0
Table(t, i) ==
    IF i > Len(Slots) THEN <<>>
    ELSE (IF t[i] = 0 THEN <<>>
          ELSE Rows(SpecShapes[t[i]], 1, Slots[i][2], Slots[i][1]))
         \o Table(t, i + 1)

Tables ==
    {Table(t, 1) : t \in {u \in [DOMAIN Slots -> 0..Len(SpecShapes)] :
        Cardinality({i \in DOMAIN Slots : u[i] # 0}) \in GroupCounts}}

\* the rows of each (data_set, sim_name) group of a table
GroupsOf(df) ==
    {SelectSeq(df, LAMBDA r : r.data_set = l /\ r.sim_name = s) :
        l \in Labels, s \in Series} \ {<<>>}

Renamings == {f \in [Labels -> Labels] : \A a, b \in Labels : f[a] = f[b] => a = b}

Rename(df, f) == [k \in DOMAIN df |-> [df[k] EXCEPT !.data_set = f[@]]]

Init ==
    /\ \E d \in SpecDomains : stepsx = d[1] /\ stepsy = d[2]
    /\ dataframe \in Tables
    /\ cubic \in [UNION {CubicArgs(Keys, stepsx, stepsy, g) : g \in GroupsOf(dataframe)}
                    -> CubicVals]
    /\ pc = "start"
    /\ grid = None /\ field = None /\ out = None /\ renaming = None /\ out2 = None
    /\ kept = None /\ changed = None /\ out3 = None

Analyze ==
    /\ pc = "start"
    /\ out' = order_of_accuracy_values_(Keys, stepsx, stepsy, dataframe, cubic)
    /\ pc' = "analyzed"
    /\ UNCHANGED <<stepsx, stepsy, dataframe, cubic, grid, field, renaming, out2,
                 kept, changed, out3>>

Relabel ==
    /\ pc = "analyzed"
    /\ \E f \in Renamings :
        /\ renaming' = f
        /\ out2' = order_of_accuracy_values_(Keys, stepsx, stepsy,
                                             Rename(dataframe, f), cubic)
    /\ pc' = "relabelled"
    /\ UNCHANGED <<stepsx, stepsy, dataframe, cubic, grid, field, out,
                 kept, changed, out3>>

\* the rows a changed series may get: none, or one run, of T1 or of Sq
OtherRuns ==
    {r \in [Labels -> {0, 1, 3}] :
        Cardinality({l \in Labels : r[l] # 0}) <= 1}

RECURSIVE ChangedTable(_, _, _, _)
\* the table, run by run in the order of Slots, with the rows of series s
\* as they are in df and the rows of every other series as r says
ChangedTable(df, s, r, i) ==
    IF i > Len(Slots) THEN <<>>
    ELSE (IF Slots[i][2] = s
          THEN SelectSeq(df, LAMBDA w : w.data_set = Slots[i][1] /\ w.sim_name = s)
          ELSE IF r[Slots[i][1]] = 0 THEN <<>>
          ELSE Rows(SpecShapes[r[Slots[i][1]]], 1, Slots[i][2], Slots[i][1]))
         \o ChangedTable(df, s, r, i + 1)

\* the call again on a table that has the same rows of one series, and
\* other rows (added, removed or changed) of the other series
ChangeOthers ==
    /\ pc = "analyzed"
    /\ \E s \in DOMAIN out : \E r \in OtherRuns :
        /\ kept' = s
        /\ changed' = ChangedTable(dataframe, s, r, 1)
        /\ out3' = order_of_accuracy_values_(Keys, stepsx, stepsy,
                                             ChangedTable(dataframe, s, r, 1), cubic)
    /\ pc' = "changed"
    /\ UNCHANGED <<stepsx, stepsy, dataframe, cubic, grid, field, out, renaming, out2>>

Next == Analyze \/ Relabel \/ ChangeOthers

Spec == Init /\ [][Next]_vars

(***************************************************************************)
(* What the claims speak of.                                               *)
(***************************************************************************)
\* order_of_accuracy_values_ has returned out (Relabel leaves out as it is)
Returned == pc = "analyzed"

\* the data_set labels among the rows of series s
LabelsIn(df, s) == {df[k].data_set : k \in {q \in DOMAIN df : df[q].sim_name = s}}

\* the rows of series s under label l
GroupAt(df, l, s) == SelectSeq(df, LAMBDA r : r.data_set = l /\ r.sim_name = s)

\* the row count behind a spacing sqrt(area / row_count)
RowsBehind(dx) == dx.den

(***************************************************************************)
(* C1: a series with N >= 2 distinct data_set labels gets N - 1 spacings   *)
(* and N - 1 errors.                                                       *)
(***************************************************************************)
C1_Lengths ==
    Returned =>
        \A s \in Series :
            Cardinality(LabelsIn(dataframe, s)) >= 2 =>
                /\ s \in DOMAIN out
                /\ Len(out[s][1]) = Cardinality(LabelsIn(dataframe, s)) - 1
                /\ Len(out[s][2]) = Cardinality(LabelsIn(dataframe, s)) - 1

C1_Witness ==
    /\ pc = "analyzed"
    /\ \E s \in Series :
        /\ Cardinality(LabelsIn(dataframe, s)) = 3
        /\ Len(out[s][1]) = 2 /\ Len(out[s][2]) = 2

(***************************************************************************)
(* C2 as stated: along the output of a series the row counts of the groups *)
(* do not decrease (coarsest first, finest last).                          *)
(***************************************************************************)
C2_CoarsestFirst ==
    Returned =>
        \A s \in DOMAIN out : \A i, j \in DOMAIN out[s][1] :
            i < j => RowsBehind(out[s][1][i]) <= RowsBehind(out[s][1][j])

(***************************************************************************)
(* C2 amended: along the output of a series the row counts of the groups   *)
(* do not increase (the finest non-reference resolution first, the         *)
(* coarsest last).                                                         *)
(***************************************************************************)
C2_FinestFirst ==
    Returned =>
        \A s \in DOMAIN out : \A i, j \in DOMAIN out[s][1] :
            i < j => RowsBehind(out[s][1][i]) >= RowsBehind(out[s][1][j])

C2_Witness ==
    /\ pc = "analyzed"
    /\ \E s \in DOMAIN out :
        /\ Len(out[s][1]) = 2
        /\ RowsBehind(out[s][1][1]) > RowsBehind(out[s][1][2])

(***************************************************************************)
(* C3: a series with exactly one data_set label is a key of the returned   *)
(* mapping (the call returns), with empty spacings and empty errors.       *)
(***************************************************************************)
C3_SingleResolution ==
    Returned =>
        \A s \in Series :
            Cardinality(LabelsIn(dataframe, s)) = 1 =>
                s \in DOMAIN out /\ out[s] = <<<<>>, <<>>>>

C3_Witness ==
    /\ pc = "analyzed"
    /\ \E s \in Series :
        /\ Cardinality(LabelsIn(dataframe, s)) = 1
        /\ out[s][1] = <<>> /\ out[s][2] = <<>>
    /\ \E s \in Series : Cardinality(LabelsIn(dataframe, s)) >= 2

(***************************************************************************)
(* More of what the claims speak of.                                       *)
(***************************************************************************)
\* the groups of series s in the order order_of_accuracy_values_ sorts them:
\* the reference first, then the groups behind out[s][.][1], [2], ...
SortedGroups(df, s) ==
    LET ls == SortedSeq(LabelsIn(df, s))
    IN  sorted_len_reverse([i \in DOMAIN ls |-> GroupAt(df, ls[i], s)])

FieldOf(g) == interp(Keys, stepsx, stepsy, g, cubic)

\* an error sqrt((rat + sqrt(irr)) / 2) * sqrt(num / den) is a real >= 0
NonNegative(e) == e.rat >= 0 /\ e.irr >= 0 /\ e.num >= 0 /\ e.den > 0
IsZero(e) == (e.rat = 0 /\ e.irr = 0) \/ e.num = 0

(***************************************************************************)
(* C4: every returned error is non-negative, and it is 0 when the group's  *)
(* interpolated field equals the reference's at every grid point.          *)
(***************************************************************************)
C4_ErrorNonNegative ==
    Returned =>
        \A s \in DOMAIN out : \A i \in DOMAIN out[s][2] :
            /\ NonNegative(out[s][2][i])
            /\ FieldOf(SortedGroups(dataframe, s)[i + 1])
                    = FieldOf(SortedGroups(dataframe, s)[1])
                => IsZero(out[s][2][i])

C4_Witness ==
    /\ pc = "analyzed"
    /\ \E s \in DOMAIN out : \E i \in DOMAIN out[s][2] :
        /\ FieldOf(SortedGroups(dataframe, s)[i + 1])
                = FieldOf(SortedGroups(dataframe, s)[1])
        /\ \E a \in 1..stepsx[2], b \in 1..stepsy[2] :
                FieldOf(SortedGroups(dataframe, s)[1])[a][b] # 0
        /\ IsZero(out[s][2][i])
    /\ \E s \in DOMAIN out : \E i \in DOMAIN out[s][2] : ~IsZero(out[s][2][i])

(***************************************************************************)
(* C5 as stated: renaming the data_set labels of the table injectively     *)
(* leaves every series' (spacings, errors) unchanged, also when two groups *)
(* have the same row count.                                                *)
(***************************************************************************)
C5_RenamingInvariant ==
    pc = "relabelled" => out2 = out

\* the renaming keeps the ascending order of the labels of any two groups
\* of series s that have the same row count
KeepsTies(df, f, s) ==
    \A a, b \in LabelsIn(df, s) :
        (a < b /\ Len(GroupAt(df, a, s)) = Len(GroupAt(df, b, s))) => f[a] < f[b]

(***************************************************************************)
(* C5 amended: an injective renaming of the data_set labels leaves the     *)
(* (spacings, errors) of a series unchanged provided it keeps the          *)
(* ascending order of the labels of any two groups of that series with the *)
(* same row count (in particular when all row counts of the series         *)
(* differ): groups of equal row count are ordered by label.                *)
(***************************************************************************)
C5_RenamingKeepingTies ==
    pc = "relabelled" =>
        /\ DOMAIN out2 = DOMAIN out
        /\ \A s \in DOMAIN out :
            KeepsTies(dataframe, renaming, s) => out2[s] = out[s]

C5_Witness ==
    /\ pc = "relabelled"
    /\ \E s \in DOMAIN out :
        /\ Len(out[s][1]) = 2
        /\ KeepsTies(dataframe, renaming, s)
        /\ \E a, b \in LabelsIn(dataframe, s) :
            /\ a < b /\ renaming[a] > renaming[b]
            /\ Len(GroupAt(dataframe, a, s)) < Len(GroupAt(dataframe, b, s))
        /\ \E a, b \in LabelsIn(dataframe, s) :
            a < b /\ Len(GroupAt(dataframe, a, s)) = Len(GroupAt(dataframe, b, s))
        /\ out[s][2][1] # out[s][2][2]
        /\ out2[s] = out[s]

(***************************************************************************)
(* make_grid: what the claims speak of.                                    *)
(***************************************************************************)
\* both coordinate arrays have shape (n, m)
HasShape(g, n, m) ==
    \A a \in {1, 2} :
        /\ DOMAIN g[a] = 1..n
        /\ \A i \in 1..n : DOMAIN g[a][i] = 1..m

\* x depends on the first index only, y on the second only, and consecutive
\* coordinates along an axis are the same distance apart
RatDiff(a, b) == Rat(a.n * b.d - b.n * a.d, a.d * b.d)

RegularlySpaced(g, n, m) ==
    /\ \A i \in 1..n : \A j \in 1..m :
        RatEq(g[1][i][j], g[1][i][1]) /\ RatEq(g[2][i][j], g[2][1][j])
    /\ \A i \in 1..(n - 2) :
        RatEq(RatDiff(g[1][i + 1][1], g[1][i][1]),
              RatDiff(g[1][i + 2][1], g[1][i + 1][1]))
    /\ \A j \in 1..(m - 2) :
        RatEq(RatDiff(g[2][1][j + 1], g[2][1][j]),
              RatDiff(g[2][1][j + 2], g[2][1][j + 1]))

FirstIsLow(g) ==
    /\ RatEq(g[1][1][1], Rat(stepsx[1][1], 1))
    /\ RatEq(g[2][1][1], Rat(stepsy[1][1], 1))

LastXIsHigh(g) == RatEq(g[1][stepsx[2]][1], Rat(stepsx[1][2], 1))
LastYIsHigh(g) == RatEq(g[2][1][stepsy[2]], Rat(stepsy[1][2], 1))

(***************************************************************************)
(* C6 as stated: for all n, m >= 1 make_grid returns two arrays of shape   *)
(* (n, m), regularly spaced, whose first and last coordinate along each    *)
(* axis are the low and the high endpoint of that axis.                    *)
(***************************************************************************)
C6_Endpoints ==
    pc = "grid" =>
        /\ HasShape(grid, stepsx[2], stepsy[2])
        /\ RegularlySpaced(grid, stepsx[2], stepsy[2])
        /\ FirstIsLow(grid)
        /\ LastXIsHigh(grid) /\ LastYIsHigh(grid)

(***************************************************************************)
(* C6 amended: for all n, m >= 1 make_grid returns two arrays of shape     *)
(* (n, m), regularly spaced, whose first coordinate along each axis is the *)
(* low endpoint; the last coordinate along an axis is the high endpoint    *)
(* (low + (k - 1) * (high - low) / (k - 1)) when the axis has k >= 2       *)
(* points, and is the low endpoint when it has one point.                  *)
(***************************************************************************)
C6_EndpointsFromTwoPoints ==
    pc = "grid" =>
        /\ HasShape(grid, stepsx[2], stepsy[2])
        /\ RegularlySpaced(grid, stepsx[2], stepsy[2])
        /\ FirstIsLow(grid)
        /\ stepsx[2] >= 2 => LastXIsHigh(grid)
        /\ stepsy[2] >= 2 => LastYIsHigh(grid)

C6_Witness ==
    /\ pc = "grid"
    /\ stepsx[2] >= 3 /\ stepsy[2] = 2
    /\ stepsx[1][1] > 0
    /\ LastXIsHigh(grid) /\ LastYIsHigh(grid)
    /\ ~RatEq(grid[1][2][1], grid[1][1][1])

(***************************************************************************)
(* interp: what the claims speak of.                                       *)
(***************************************************************************)
\* (px, py) is strictly outside the convex hull: some line through two of
\* the points has every point on one side or on it, and (px, py) strictly
\* on the other side
StrictlyOutside(points, px, py) ==
    \E a, b \in DOMAIN points :
        /\ a # b
        /\ \A k \in DOMAIN points : Orient(points[a], points[b], points[k]) >= 0
        /\ OrientRat(points[a], points[b], px, py) < 0

(***************************************************************************)
(* C7: interp returns 0 at every point of the regular grid that lies       *)
(* strictly outside the convex hull of the sample points, whatever the     *)
(* sample values are.                                                      *)
(***************************************************************************)
C7_ZeroOutsideHull ==
    pc = "interp" =>
        \A i \in 1..stepsx[2] : \A j \in 1..stepsy[2] :
            StrictlyOutside(PointsOf(Keys, dataframe),
                            make_grid(stepsx, stepsy)[1][i][j],
                            make_grid(stepsx, stepsy)[2][i][j])
                => field[i][j] = 0

C7_Witness ==
    /\ pc = "interp"
    /\ \E i \in 1..stepsx[2] : \E j \in 1..stepsy[2] :
        /\ StrictlyOutside(PointsOf(Keys, dataframe),
                           make_grid(stepsx, stepsy)[1][i][j],
                           make_grid(stepsx, stepsy)[2][i][j])
        /\ field[i][j] = 0
    /\ \E i \in 1..stepsx[2] : \E j \in 1..stepsy[2] : field[i][j] > 1
    /\ \A k \in DOMAIN dataframe : dataframe[k].z # 0

(***************************************************************************)
(* C8: the reference of a series is a group with the most rows of the      *)
(* series; it alone is left out of both output sequences, and every other  *)
(* group contributes one spacing and one error, the error taken against    *)
(* that reference.                                                         *)
(***************************************************************************)
C8_Reference ==
    Returned =>
        \A s \in Series : LabelsIn(dataframe, s) # {} =>
            /\ s \in DOMAIN out
            /\ \E r \in LabelsIn(dataframe, s) :
                /\ \A l \in LabelsIn(dataframe, s) :
                    Len(GroupAt(dataframe, l, s)) <= Len(GroupAt(dataframe, r, s))
                /\ \E p \in [1..(Cardinality(LabelsIn(dataframe, s)) - 1)
                                -> LabelsIn(dataframe, s) \ {r}] :
                    /\ \A i, j \in DOMAIN p : p[i] = p[j] => i = j
                    /\ DOMAIN out[s][1] = DOMAIN p
                    /\ DOMAIN out[s][2] = DOMAIN p
                    /\ \A i \in DOMAIN p :
                        /\ out[s][1][i]
                            = effective_dx(stepsx, stepsy, GroupAt(dataframe, p[i], s))
                        /\ out[s][2][i]
                            = norm(stepsx, stepsy,
                                   FieldOf(GroupAt(dataframe, r, s)),
                                   FieldOf(GroupAt(dataframe, p[i], s)))

C8_Witness ==
    /\ pc = "analyzed"
    /\ \E s \in DOMAIN out :
        /\ Cardinality(LabelsIn(dataframe, s)) = 3
        /\ Len(out[s][2]) = 2
        /\ RowsBehind(out[s][1][1]) < Len(SortedGroups(dataframe, s)[1])
        /\ ~IsZero(out[s][2][1]) /\ ~IsZero(out[s][2][2])
        /\ out[s][2][1] # out[s][2][2]

(***************************************************************************)
(* C9: the output of a series keeps the order of the row-count-descending  *)
(* sort with the reference removed, from second-most rows to fewest rows,  *)
(* and spacings[i] and errors[i] come from the same group for every i.     *)
(***************************************************************************)
C9_OrderAndPairing ==
    Returned =>
        \A s \in DOMAIN out :
            \E q \in [1..Cardinality(LabelsIn(dataframe, s)) -> LabelsIn(dataframe, s)] :
                /\ \A i, j \in DOMAIN q : q[i] = q[j] => i = j
                /\ \A i, j \in DOMAIN q :
                    i < j => Len(GroupAt(dataframe, q[i], s))
                                >= Len(GroupAt(dataframe, q[j], s))
                /\ DOMAIN out[s][1] = 1..(Len(q) - 1)
                /\ DOMAIN out[s][2] = 1..(Len(q) - 1)
                /\ \A i \in 1..(Len(q) - 1) :
                    /\ out[s][1][i]
                        = effective_dx(stepsx, stepsy, GroupAt(dataframe, q[i + 1], s))
                    /\ out[s][2][i]
                        = norm(stepsx, stepsy,
                               FieldOf(GroupAt(dataframe, q[1], s)),
                               FieldOf(GroupAt(dataframe, q[i + 1], s)))

C9_Witness ==
    /\ pc = "analyzed"
    /\ \E s \in DOMAIN out :
        /\ Len(out[s][1]) = 2
        /\ RowsBehind(out[s][1][1]) > RowsBehind(out[s][1][2])
        /\ out[s][2][1] # out[s][2][2]
        /\ Len(SortedGroups(dataframe, s)[1]) = RowsBehind(out[s][1][1])

\* the sum of the squares of the entries of x - ref
SumSquares(ref, x) ==
    SumSeq([i \in DOMAIN x |->
        SumSeq([j \in DOMAIN x[i] |-> (x[i][j] - ref[i][j]) * (x[i][j] - ref[i][j])])])

(***************************************************************************)
(* C10 as stated: each error is the square root of the sum over all grid   *)
(* points of the squared differences between the group's interpolated      *)
(* field and the reference's, times sqrt(cell_area), cell_area =           *)
(* (x_extent * y_extent) / (n_x * n_y).                                    *)
(***************************************************************************)
C10_EuclideanNorm ==
    Returned =>
        \A s \in DOMAIN out : \A i \in DOMAIN out[s][2] :
            out[s][2][i] =
                [rat |-> 2 * SumSquares(FieldOf(SortedGroups(dataframe, s)[1]),
                                        FieldOf(SortedGroups(dataframe, s)[i + 1])),
                 irr |-> 0,
                 num |-> (stepsx[1][2] - stepsx[1][1]) * (stepsy[1][2] - stepsy[1][1]),
                 den |-> stepsx[2] * stepsy[2]]

(***************************************************************************)
(* C11: the (spacings, errors) of a series is determined by the rows of    *)
(* that series alone: with the same keys and domain, adding, removing or   *)
(* changing rows of any other series, also under the same data_set labels, *)
(* leaves it unchanged.                                                    *)
(***************************************************************************)
RowsOfSeries(df, s) == SelectSeq(df, LAMBDA r : r.sim_name = s)

C11_SeriesIndependent ==
    pc = "changed" =>
        /\ RowsOfSeries(changed, kept) = RowsOfSeries(dataframe, kept)
        /\ kept \in DOMAIN out3
        /\ out3[kept] = out[kept]

C11_Witness ==
    /\ pc = "changed"
    /\ Len(out[kept][2]) >= 1
    /\ \E i \in DOMAIN out[kept][2] : ~IsZero(out[kept][2][i])
    /\ \E s \in Series \ {kept} :
        /\ RowsOfSeries(changed, s) # RowsOfSeries(dataframe, s)
        /\ RowsOfSeries(changed, s) # <<>>
        /\ RowsOfSeries(dataframe, s) # <<>>
        /\ LabelsIn(changed, s) \cap LabelsIn(changed, kept) # {}
    /\ out3[kept] = out[kept]

\* rows of another series are added where there were none
C11_WitnessAdded ==
    /\ pc = "changed"
    /\ Len(out[kept][2]) = 2
    /\ DOMAIN out = {kept}
    /\ DOMAIN out3 = Series
    /\ out3[kept] = out[kept]

(***************************************************************************)
(* C12: the spacings of a series do not decrease from first to last, and   *)
(* each is at least the spacing sqrt(domain_area / row_count) of the       *)
(* dropped reference group, the group with the most rows.                  *)
(***************************************************************************)
\* sqrt(a.num / a.den) <= sqrt(b.num / b.den), for a.den, b.den > 0
SpacingLeq(a, b) == a.num * b.den <= b.num * a.den

\* the most rows a group of series s has
MostRows(df, s) ==
    CHOOSE n \in {Len(GroupAt(df, l, s)) : l \in LabelsIn(df, s)} :
        \A l \in LabelsIn(df, s) : Len(GroupAt(df, l, s)) <= n

ReferenceSpacing(df, s) ==
    [num |-> (stepsx[1][2] - stepsx[1][1]) * (stepsy[1][2] - stepsy[1][1]),
     den |-> MostRows(df, s)]

C12_SpacingsAscend ==
    Returned =>
        \A s \in DOMAIN out :
            /\ \A i, j \in DOMAIN out[s][1] :
                i < j => SpacingLeq(out[s][1][i], out[s][1][j])
            /\ \A i \in DOMAIN out[s][1] :
                /\ out[s][1][i].den > 0
                /\ SpacingLeq(ReferenceSpacing(dataframe, s), out[s][1][i])

C12_Witness ==
    /\ pc = "analyzed"
    /\ \E s \in DOMAIN out :
        /\ Len(out[s][1]) = 2
        /\ SpacingLeq(out[s][1][1], out[s][1][2])
        /\ ~SpacingLeq(out[s][1][2], out[s][1][1])
        /\ SpacingLeq(ReferenceSpacing(dataframe, s), out[s][1][1])

====
